---- MODULE Spec2Model ----
(***************************************************************************)
(* Control core of the stateless H.264 encoder: OutputQueue, the LowDelay  *)
(* and GroupOfPictures predictors and StatelessEncoder (encode / poll /    *)
(* drain), driven by a client and by a backend that resolves promises in   *)
(* any order.                                                              *)
(*                                                                         *)
(* import_picture may fail; encode_slice and sync succeed. An assert or    *)
(* unwrap that fails ends the run with status "panic", an arithmetic check *)
(* of LowDelay that fails ends it with status "arithmetic". Spec starts    *)
(* from a new encoder with tail, size and limit of at least 1 and small,   *)
(* where no arithmetic operation fails. SpecWide is LowDelay at the edges  *)
(* of u16: an encoder deep in a long sequence, where poc = counter * 2     *)
(* leaves u16, and new encoders with tail = 0 or limit = 0. A build with   *)
(* overflow checks panics on an overflow, one without wraps; a remainder   *)
(* by zero panics in both.                                                 *)
(***************************************************************************)
EXTENDS Integers, Sequences, FiniteSets, TLC

\* ------------------------------------------------------------------ bounds
\* Number of frames the client submits with encode.
MaxFrames == 4
\* The values of `tail` (LowDelay) / `size` (GroupOfPictures) of a configuration.
Tails == {1, 2}
\* Largest `limit` of a configuration.
MaxLimit == 2

\* Number of values of the u16 type of counter, poc, tail, size and limit.
U16 == 65536

BlockingModes == {"Blocking", "NonBlocking"}

\* PredictionStructure: LowDelay { tail, limit } | GroupOfPictures { size, limit }.
\* overflow_checks is the build's setting for integer overflow (TRUE: panic, as in the
\* dev and test profiles; FALSE: wrap, as in the release profile); it makes no
\* difference with these limits.
PredictionStructure ==
    [pred : {"LowDelay"}, tail : Tails, size : {0}, limit : 1..MaxLimit,
     overflow_checks : {TRUE}]
    \cup
    [pred : {"GroupOfPictures"}, tail : {0}, size : Tails, limit : 1..MaxLimit,
     overflow_checks : {TRUE}]

\* The largest limit a u16 holds, and the counter of a LowDelay sequence whose next
\* frame is the last one with counter * 2 inside u16.
WideLimit == U16 - 1
WideCounter == (U16 \div 2) - 1

\* LowDelay at the edges of u16, built with or without overflow checks: the largest
\* limit, and the configurations with tail = 0 or limit = 0.
WideStructure ==
    [pred : {"LowDelay"}, tail : Tails, size : {0}, limit : {WideLimit},
     overflow_checks : BOOLEAN]
    \cup
    [pred : {"LowDelay"}, tail : {0}, size : {0}, limit : {0, MaxLimit, WideLimit},
     overflow_checks : BOOLEAN]
    \cup
    [pred : {"LowDelay"}, tail : Tails, size : {0}, limit : {0},
     overflow_checks : BOOLEAN]

VARIABLES
    config,                 \* EncoderConfig.pred_structure
    backend_ready,          \* TRUE: the backend returns ReadyPromise (dummy backend)
    output_queue,           \* StatelessEncoder.output_queue : OutputQueue<SlicePromise>
    recon_queue,            \* StatelessEncoder.recon_queue : OutputQueue<ReferencePromise>
    predictor,              \* StatelessEncoder.predictor (fields of both predictors)
    coded_queue,            \* StatelessEncoder.coded_queue (FrameMetadata of the buffers)
    predictor_frame_count,  \* StatelessEncoder.predictor_frame_count
    status,                 \* "ok"; "panic" once an assert/unwrap aborted the program;
                            \* "arithmetic" once an arithmetic check of LowDelay did
    inputs,                 \* history: FrameMetadata of every frame encode accepted, in order
    submitted,              \* history: every BackendRequest handed to encode_slice, in order
    recon_log,              \* history: DpbEntry values delivered to Predictor::reconstructed
    drain_log,              \* history: the requests Predictor::drain returned to drain
    polled,                 \* history: FrameMetadata of the buffers poll returned to the client
    sync_log,               \* promises the last operation called sync on
    last_op,                \* the last operation: a client call or a backend completion
    last_result             \* its result

vars == <<config, backend_ready, output_queue, recon_queue, predictor, coded_queue,
          predictor_frame_count, status, inputs, submitted, recon_log, drain_log,
          polled, sync_log, last_op, last_result>>

\* ------------------------------------------------------------ small helpers
None == <<>>
Some(x) == <<x>>
IsNone(o) == o = <<>>
IsSome(o) == o # <<>>
Unwrap(o) == o[1]

Min(a, b) == IF a < b THEN a ELSE b
PushFront(s, x) == <<x>> \o s
PopFront(s) == Tail(s)
PopBack(s) == SubSeq(s, 1, Len(s) - 1)
Back(s) == s[Len(s)]
Reverse(s) == [i \in 1..Len(s) |-> s[Len(s) + 1 - i]]

\* ------------------------------------------------------------- OutputQueue
OutputQueue_new(blocking) == [blocking |-> blocking, promises |-> <<>>]

\* Mutant: the promise is pushed at the front of the queue.
OutputQueue_add_promise_front(q, pending) == [q EXCEPT !.promises = PushFront(@, pending)]

OutputQueue_add_promise(q, pending) == [q EXCEPT !.promises = Append(@, pending)]

OutputQueue_is_empty(q) == q.promises = <<>>

\* Mutant: poll returns the first promise that is ready, wherever it is queued.
OutputQueue_poll_any_ready(q, mode) ==
    LET block == q.blocking = "Blocking" \/ mode = "Blocking"
        ready == {i \in 1..Len(q.promises) : q.promises[i].ready}
    IN  IF q.promises = <<>>
        THEN [q |-> q, out |-> None]
        ELSE IF ready # {}
        THEN LET i == CHOOSE k \in ready : \A m \in ready : k <= m
             IN  [q |-> [q EXCEPT !.promises =
                                     SubSeq(@, 1, i - 1) \o SubSeq(@, i + 1, Len(@))],
                  out |-> Some(q.promises[i])]
        ELSE IF block
        THEN [q |-> [q EXCEPT !.promises = PopFront(@)], out |-> Some(Head(q.promises))]
        ELSE [q |-> q, out |-> None]

\* Mutant: poll blocks whatever the modes say and whether the head is ready or not.
OutputQueue_poll_always_blocks(q, mode) ==
    IF q.promises = <<>>
    THEN [q |-> q, out |-> None]
    ELSE [q |-> [q EXCEPT !.promises = PopFront(@)], out |-> Some(Head(q.promises))]

\* Mutant: a head that is not ready is popped and not pushed back.
OutputQueue_poll_drops_unready(q, mode) ==
    LET block == q.blocking = "Blocking" \/ mode = "Blocking"
    IN  IF q.promises = <<>>
        THEN [q |-> q, out |-> None]
        ELSE LET o == Head(q.promises)
             IN  IF block \/ o.ready
                 THEN [q |-> [q EXCEPT !.promises = PopFront(@)], out |-> Some(o)]
                 ELSE [q |-> [q EXCEPT !.promises = PopFront(@)], out |-> None]

\* poll: [q |-> the queue afterwards, out |-> None or Some(the promise sync was called on)]
OutputQueue_poll(q, mode) ==
    LET block == q.blocking = "Blocking" \/ mode = "Blocking"
    IN  IF q.promises = <<>>
        THEN [q |-> q, out |-> None]
        ELSE LET o == Head(q.promises)
             IN  IF block \/ o.ready
                 THEN [q |-> [q EXCEPT !.promises = PopFront(@)], out |-> Some(o)]
                 ELSE [q |-> q, out |-> None]

\* ------------------------------------------------------- LowDelay predictor
\* The parameters of the Sps built by new_sequence that depend on the configuration.
LowDelay_sps(cfg) ==
    [max_frame_num |-> cfg.limit,
     max_pic_order_cnt_lsb |-> cfg.limit * 2,
     max_num_ref_frames |-> cfg.tail + 1]

\* A predictor step returns [p |-> predictor, requests |-> verdict, status];
\* an empty `requests` is PredictorVerdict::NoOperation.
LowDelay_new_sequence(cfg, p) ==
    [p EXCEPT !.dpb = <<>>, !.sps = Some(LowDelay_sps(cfg))]

\* Mutant: request_idr does not reset the counter.
LowDelay_request_idr_keeps_counter(cfg, p, input_meta) ==
    LET p1 == LowDelay_new_sequence(cfg, p)
        dpb_meta == [poc |-> 0, frame_num |-> 0, is_reference |-> "ShortTerm"]
    IN  [p |-> [p1 EXCEPT !.counter = p1.counter + 1],
         requests |-> << [sps |-> Unwrap(p1.sps),
                          slice_type |-> "I",
                          input_meta |-> input_meta,
                          dpb_meta |-> dpb_meta,
                          ref_list_0 |-> <<>>,
                          ref_list_1 |-> <<>>,
                          is_idr |-> TRUE] >>,
         status |-> "ok"]

LowDelay_request_idr(cfg, p, input_meta) ==
    LET p1 == LowDelay_new_sequence(cfg, [p EXCEPT !.counter = 0])
        dpb_meta == [poc |-> (p1.counter * 2) % U16,
                     frame_num |-> p1.counter,
                     is_reference |-> "ShortTerm"]
    IN  [p |-> [p1 EXCEPT !.counter = p1.counter + 1],
         requests |-> << [sps |-> Unwrap(p1.sps),
                          slice_type |-> "I",
                          input_meta |-> input_meta,
                          dpb_meta |-> dpb_meta,
                          ref_list_0 |-> <<>>,
                          ref_list_1 |-> <<>>,
                          is_idr |-> TRUE] >>,
         status |-> "ok"]

\* The eviction loop, `while dpb.len() > tail as usize - 1`. With tail = 0 and no
\* overflow check the bound wraps to the largest usize and nothing is removed.
RECURSIVE LowDelay_evict(_, _)
LowDelay_evict(cfg, dpb) ==
    IF cfg.tail = 0
    THEN dpb
    ELSE IF Len(dpb) > cfg.tail - 1 THEN LowDelay_evict(cfg, PopFront(dpb)) ELSE dpb

\* Mutant: the obsolete references are removed before the reference list is built.
LowDelay_request_interframe_evicts_first(cfg, p, input_meta) ==
    LET dpb == LowDelay_evict(cfg, p.dpb)
        dpb_meta == [poc |-> (p.counter * 2) % U16,
                     frame_num |-> p.counter,
                     is_reference |-> "ShortTerm"]
    IN  IF cfg.overflow_checks /\ p.counter * 2 >= U16
        THEN [p |-> p, requests |-> <<>>, status |-> "arithmetic"]
        ELSE [p |-> [p EXCEPT !.counter = p.counter + 1, !.dpb = dpb],
              requests |-> << [sps |-> Unwrap(p.sps),
                               slice_type |-> "P",
                               input_meta |-> input_meta,
                               dpb_meta |-> dpb_meta,
                               ref_list_0 |-> Reverse(dpb),
                               ref_list_1 |-> <<>>,
                               is_idr |-> FALSE] >>,
              status |-> "ok"]

\* poc = counter * 2 is a u16 product: with overflow checks it panics when the
\* result does not fit, without them it wraps. So does the bound tail - 1 of the
\* eviction loop when tail = 0, after the counter has been advanced.
LowDelay_request_interframe(cfg, p, input_meta) ==
    LET ref_list_0 == Reverse(p.dpb)
        dpb_meta == [poc |-> (p.counter * 2) % U16,
                     frame_num |-> p.counter,
                     is_reference |-> "ShortTerm"]
    IN  IF cfg.overflow_checks /\ p.counter * 2 >= U16
        THEN [p |-> p, requests |-> <<>>, status |-> "arithmetic"]
        ELSE IF cfg.overflow_checks /\ cfg.tail = 0
        THEN [p |-> [p EXCEPT !.counter = p.counter + 1],
              requests |-> <<>>, status |-> "arithmetic"]
        ELSE [p |-> [p EXCEPT !.counter = p.counter + 1,
                              !.dpb = LowDelay_evict(cfg, p.dpb)],
              requests |-> << [sps |-> Unwrap(p.sps),
                               slice_type |-> "P",
                               input_meta |-> input_meta,
                               dpb_meta |-> dpb_meta,
                               ref_list_0 |-> ref_list_0,
                               ref_list_1 |-> <<>>,
                               is_idr |-> FALSE] >>,
              status |-> "ok"]

\* counter %= limit comes first: with limit = 0 the remainder panics.
LowDelay_next_request(cfg, p0) ==
    LET p == [p0 EXCEPT !.counter = p0.counter % cfg.limit]
    IN  IF cfg.limit = 0
        THEN [p |-> p0, requests |-> <<>>, status |-> "arithmetic"]
        ELSE IF p.queue = <<>>
        THEN [p |-> p, requests |-> <<>>, status |-> "ok"]
        ELSE LET meta == Head(p.queue)
                 popped == [p EXCEPT !.queue = PopFront(@)]
             IN  IF p.counter = 0 \/ meta.force_keyframe
                 THEN LowDelay_request_idr(cfg, popped, meta)
                 ELSE IF p.dpb = <<>> \/ Len(p.dpb) < Min(p.counter, cfg.tail)
                 THEN [p |-> p, requests |-> <<>>, status |-> "ok"]
                 ELSE IF Back(p.dpb).meta.frame_num # p.counter - 1
                 THEN [p |-> popped, requests |-> <<>>, status |-> "panic"]
                 ELSE LowDelay_request_interframe(cfg, popped, meta)

LowDelay_new_frame(cfg, p, frame_metadata) ==
    LowDelay_next_request(cfg, [p EXCEPT !.queue = Append(@, frame_metadata)])

\* Mutant: reconstructed stores the picture and does not look at the queued frames.
LowDelay_reconstructed_stores_only(cfg, p, recon) ==
    [p |-> [p EXCEPT !.dpb = Append(@, recon)], requests |-> <<>>, status |-> "ok"]

LowDelay_reconstructed(cfg, p, recon) ==
    LowDelay_next_request(cfg, [p EXCEPT !.dpb = Append(@, recon)])

\* drain: [p, requests, err]; LowDelay always fails.
LowDelay_drain(cfg, p) ==
    [p |-> p, requests |-> <<>>, status |-> "ok", err |-> "InvalidInternalState"]

\* ------------------------------------------------ GroupOfPictures predictor
GroupOfPictures_sps(cfg) ==
    [max_frame_num |-> cfg.limit,
     max_pic_order_cnt_lsb |-> cfg.limit * 2,
     max_num_ref_frames |-> cfg.size + 1]

GroupOfPictures_new_sequence(cfg, p) ==
    [p EXCEPT !.frame_counter = 0,
              !.poc_counter = 0,
              !.l0_ref = None,
              !.idr_ref_pending = None,
              !.l1_ref_pending = None,
              !.sps = Some(GroupOfPictures_sps(cfg))]

\* request_*: [p |-> predictor, request |-> the BackendRequest, status]
GroupOfPictures_request_idr(cfg, p, input_meta) ==
    LET p1 == GroupOfPictures_new_sequence(cfg, p)
        dpb_meta == [poc |-> (p1.poc_counter * 2) % U16,
                     frame_num |-> p1.frame_counter,
                     is_reference |-> "ShortTerm"]
    IN  [p |-> [p1 EXCEPT !.poc_counter = @ + 1,
                          !.frame_counter = @ + 1,
                          !.idr_ref_pending = Some(dpb_meta)],
         request |-> [sps |-> Unwrap(p1.sps),
                      slice_type |-> "I",
                      input_meta |-> input_meta,
                      dpb_meta |-> dpb_meta,
                      ref_list_0 |-> <<>>,
                      ref_list_1 |-> <<>>,
                      is_idr |-> TRUE],
         status |-> "ok"]

GroupOfPictures_request_p(cfg, p, input_meta) ==
    LET dpb_meta == [poc |-> ((p.poc_counter + cfg.size) * 2) % U16,
                     frame_num |-> p.frame_counter,
                     is_reference |-> "ShortTerm"]
    IN  IF IsNone(p.l0_ref)
        THEN \* self.l0_ref.as_ref().unwrap() panics
             [p |-> [p EXCEPT !.l1_ref_pending = Some(dpb_meta)],
              request |-> <<>>, status |-> "panic"]
        ELSE [p |-> [p EXCEPT !.l1_ref_pending = Some(dpb_meta),
                              !.poc_counter = @ + 1,
                              !.frame_counter = @ + 1],
              request |-> [sps |-> Unwrap(p.sps),
                           slice_type |-> "P",
                           input_meta |-> input_meta,
                           dpb_meta |-> dpb_meta,
                           ref_list_0 |-> <<Unwrap(p.l0_ref)>>,
                           ref_list_1 |-> <<>>,
                           is_idr |-> FALSE],
              status |-> "ok"]

\* Mutant: the B request takes the frame_num of the P request emitted before it.
GroupOfPictures_request_b_frame_num_of_p(cfg, p, input_meta, l1_ref) ==
    LET dpb_meta == [poc |-> ((p.poc_counter - 1) * 2) % U16,
                     frame_num |-> p.frame_counter - 1,
                     is_reference |-> "No"]
    IN  IF IsNone(p.l0_ref)
        THEN [p |-> p, request |-> <<>>, status |-> "panic"]
        ELSE [p |-> [p EXCEPT !.poc_counter = @ + 1],
              request |-> [sps |-> Unwrap(p.sps),
                           slice_type |-> "B",
                           input_meta |-> input_meta,
                           dpb_meta |-> dpb_meta,
                           ref_list_0 |-> <<Unwrap(p.l0_ref)>>,
                           ref_list_1 |-> <<l1_ref>>,
                           is_idr |-> FALSE],
              status |-> "ok"]

GroupOfPictures_request_b(cfg, p, input_meta, l1_ref) ==
    LET dpb_meta == [poc |-> ((p.poc_counter - 1) * 2) % U16,
                     frame_num |-> p.frame_counter,
                     is_reference |-> "No"]
    IN  IF IsNone(p.l0_ref)
        THEN [p |-> p, request |-> <<>>, status |-> "panic"]
        ELSE [p |-> [p EXCEPT !.poc_counter = @ + 1],
              request |-> [sps |-> Unwrap(p.sps),
                           slice_type |-> "B",
                           input_meta |-> input_meta,
                           dpb_meta |-> dpb_meta,
                           ref_list_0 |-> <<Unwrap(p.l0_ref)>>,
                           ref_list_1 |-> <<l1_ref>>,
                           is_idr |-> FALSE],
              status |-> "ok"]

\* Mutant: the pump emits a P request whether or not an L1 reconstruction is pending.
RECURSIVE GroupOfPictures_next_i_p_frames_ignores_l1(_, _, _)
GroupOfPictures_next_i_p_frames_ignores_l1(cfg, p, requests) ==
    IF p.pending = <<>>
    THEN [p |-> p, requests |-> requests, status |-> "ok"]
    ELSE LET frame_metadata == Head(p.pending)
             popped == [p EXCEPT !.pending = PopFront(@)]
         IN  IF IsNone(p.l0_ref) /\ IsNone(p.idr_ref_pending)
             THEN LET r == GroupOfPictures_request_idr(cfg, popped, frame_metadata)
                  IN  GroupOfPictures_next_i_p_frames_ignores_l1(
                          cfg, r.p, Append(requests, r.request))
             ELSE IF Len(p.future_b_frames) < cfg.size
             THEN GroupOfPictures_next_i_p_frames_ignores_l1(
                      cfg, [popped EXCEPT !.future_b_frames = Append(@, frame_metadata)],
                      requests)
             ELSE IF IsSome(p.l0_ref)
             THEN LET r == GroupOfPictures_request_p(cfg, popped, frame_metadata)
                  IN  GroupOfPictures_next_i_p_frames_ignores_l1(
                          cfg, r.p, Append(requests, r.request))
             ELSE [p |-> p, requests |-> requests, status |-> "ok"]

\* The pump: [p, requests, status], `requests` being the vector extended in place.
RECURSIVE GroupOfPictures_next_i_p_frames(_, _, _)
GroupOfPictures_next_i_p_frames(cfg, p, requests) ==
    IF p.pending = <<>>
    THEN [p |-> p, requests |-> requests, status |-> "ok"]
    ELSE LET frame_metadata == Head(p.pending)
             popped == [p EXCEPT !.pending = PopFront(@)]
         IN  IF IsNone(p.l0_ref) /\ IsNone(p.idr_ref_pending)
             THEN LET r == GroupOfPictures_request_idr(cfg, popped, frame_metadata)
                  IN  GroupOfPictures_next_i_p_frames(cfg, r.p, Append(requests, r.request))
             ELSE IF Len(p.future_b_frames) < cfg.size
             THEN GroupOfPictures_next_i_p_frames(
                      cfg, [popped EXCEPT !.future_b_frames = Append(@, frame_metadata)],
                      requests)
             ELSE IF IsNone(p.l1_ref_pending) /\ IsSome(p.l0_ref)
             THEN LET r == GroupOfPictures_request_p(cfg, popped, frame_metadata)
                  IN  GroupOfPictures_next_i_p_frames(cfg, r.p, Append(requests, r.request))
             ELSE [p |-> p, requests |-> requests, status |-> "ok"]

GroupOfPictures_new_frame(cfg, p, frame_metadata) ==
    GroupOfPictures_next_i_p_frames(
        cfg, [p EXCEPT !.pending = Append(@, frame_metadata)], <<>>)

\* Mutant: the buffered B frames are emitted from the back of future_b_frames.
RECURSIVE GroupOfPictures_drain_b_frames_from_back(_, _, _, _)
GroupOfPictures_drain_b_frames_from_back(cfg, p, requests, recon) ==
    IF p.future_b_frames = <<>>
    THEN [p |-> p, requests |-> requests, status |-> "ok"]
    ELSE LET r == GroupOfPictures_request_b(
                      cfg, [p EXCEPT !.future_b_frames = PopBack(@)],
                      Back(p.future_b_frames), recon)
         IN  IF r.status = "panic"
             THEN [p |-> r.p, requests |-> requests, status |-> "panic"]
             ELSE GroupOfPictures_drain_b_frames_from_back(
                      cfg, r.p, Append(requests, r.request), recon)

\* The `while let` loop of reconstructed over future_b_frames.
RECURSIVE GroupOfPictures_drain_b_frames(_, _, _, _)
GroupOfPictures_drain_b_frames(cfg, p, requests, recon) ==
    IF p.future_b_frames = <<>>
    THEN [p |-> p, requests |-> requests, status |-> "ok"]
    ELSE LET r == GroupOfPictures_request_b(
                      cfg, [p EXCEPT !.future_b_frames = PopFront(@)],
                      Head(p.future_b_frames), recon)
         IN  IF r.status = "panic"
             THEN [p |-> r.p, requests |-> requests, status |-> "panic"]
             ELSE GroupOfPictures_drain_b_frames(
                      cfg, r.p, Append(requests, r.request), recon)

\* Mutant: the reconstructed P does not replace l0_ref after the B frames are emitted.
GroupOfPictures_reconstructed_keeps_l0(cfg, p, recon) ==
    IF p.idr_ref_pending = Some(recon.meta)
    THEN GroupOfPictures_next_i_p_frames(cfg, [p EXCEPT !.l0_ref = Some(recon)], <<>>)
    ELSE IF p.l1_ref_pending = Some(recon.meta)
    THEN LET b == GroupOfPictures_drain_b_frames(cfg, p, <<>>, recon)
         IN  IF b.status = "panic"
             THEN b
             ELSE GroupOfPictures_next_i_p_frames(
                      cfg, [b.p EXCEPT !.l1_ref_pending = None], b.requests)
    ELSE GroupOfPictures_next_i_p_frames(cfg, p, <<>>)

GroupOfPictures_reconstructed(cfg, p, recon) ==
    IF p.idr_ref_pending = Some(recon.meta)
    THEN GroupOfPictures_next_i_p_frames(cfg, [p EXCEPT !.l0_ref = Some(recon)], <<>>)
    ELSE IF p.l1_ref_pending = Some(recon.meta)
    THEN LET b == GroupOfPictures_drain_b_frames(cfg, p, <<>>, recon)
         IN  IF b.status = "panic"
             THEN b
             ELSE GroupOfPictures_next_i_p_frames(
                      cfg, [b.p EXCEPT !.l0_ref = Some(recon), !.l1_ref_pending = None],
                      b.requests)
    ELSE GroupOfPictures_next_i_p_frames(cfg, p, <<>>)

\* Mutant: drain takes the oldest buffered frame, the front of future_b_frames.
GroupOfPictures_drain_pops_front(cfg, p) ==
    IF IsSome(p.l1_ref_pending)
    THEN [p |-> p, requests |-> <<>>, status |-> "ok", err |-> "InvalidInternalState"]
    ELSE IF p.future_b_frames = <<>>
    THEN [p |-> p, requests |-> <<>>, status |-> "ok", err |-> "InvalidInternalState"]
    ELSE LET r == GroupOfPictures_request_p(
                      cfg, [p EXCEPT !.future_b_frames = PopFront(@)],
                      Head(p.future_b_frames))
         IN  IF r.status = "panic"
             THEN [p |-> r.p, requests |-> <<>>, status |-> "panic", err |-> "none"]
             ELSE [p |-> [r.p EXCEPT !.l1_ref_pending = Some(r.request.dpb_meta)],
                   requests |-> <<r.request>>, status |-> "ok", err |-> "none"]

GroupOfPictures_drain(cfg, p) ==
    IF IsSome(p.l1_ref_pending)
    THEN [p |-> p, requests |-> <<>>, status |-> "ok", err |-> "InvalidInternalState"]
    ELSE IF p.future_b_frames = <<>>
    THEN [p |-> p, requests |-> <<>>, status |-> "ok", err |-> "InvalidInternalState"]
    ELSE LET r == GroupOfPictures_request_p(
                      cfg, [p EXCEPT !.future_b_frames = PopBack(@)],
                      Back(p.future_b_frames))
         IN  IF r.status = "panic"
             THEN [p |-> r.p, requests |-> <<>>, status |-> "panic", err |-> "none"]
             ELSE [p |-> [r.p EXCEPT !.l1_ref_pending = Some(r.request.dpb_meta)],
                   requests |-> <<r.request>>, status |-> "ok", err |-> "none"]

\* ------------------------------------------------- Predictor (trait object)
Predictor_new(cfg) ==
    [counter |-> 0, queue |-> <<>>, dpb |-> <<>>, sps |-> None,
     poc_counter |-> 0, frame_counter |-> 0, pending |-> <<>>,
     future_b_frames |-> <<>>, l0_ref |-> None, idr_ref_pending |-> None,
     l1_ref_pending |-> None]

Predictor_new_frame(cfg, p, meta) ==
    IF cfg.pred = "LowDelay"
    THEN LowDelay_new_frame(cfg, p, meta)
    ELSE GroupOfPictures_new_frame(cfg, p, meta)

Predictor_reconstructed(cfg, p, recon) ==
    IF cfg.pred = "LowDelay"
    THEN LowDelay_reconstructed(cfg, p, recon)
    ELSE GroupOfPictures_reconstructed(cfg, p, recon)

Predictor_drain(cfg, p) ==
    IF cfg.pred = "LowDelay"
    THEN LowDelay_drain(cfg, p)
    ELSE GroupOfPictures_drain(cfg, p)

\* Number of frames the predictor holds.
Predictor_held(cfg, p) ==
    IF cfg.pred = "LowDelay"
    THEN Len(p.queue)
    ELSE Len(p.pending) + Len(p.future_b_frames)

\* --------------------------------------------------------- StatelessEncoder
\* The encoder as a record, so that the handlers compose as in the source.
\* `err` is the error an operation is returning ("none" while it runs normally).
Encoder ==
    [output_queue |-> output_queue, recon_queue |-> recon_queue,
     predictor |-> predictor, coded_queue |-> coded_queue,
     predictor_frame_count |-> predictor_frame_count, status |-> status,
     submitted |-> submitted, recon_log |-> recon_log, drain_log |-> drain_log,
     sync_log |-> {}, err |-> "none"]

Running(e) == e.status = "ok" /\ e.err = "none"

\* BackendPromise::sync through SlicePromise / ReferencePromise, with the call logged.
SlicePromise_sync(promise) == promise.meta

ReferencePromise_sync(promise) == [recon_pic |-> promise.recon, meta |-> promise.dpb_meta]

\* Backend::import_picture: Ok(picture), or the backend's error, which encode returns
\* as EncodeError::BackendError.
Backend_import_picture(imported) == IF imported THEN "Ok" ELSE "BackendError"

\* Backend::encode_slice: the pair (ReconPromise, CodedPromise) for a request. The
\* reconstructed picture is identified by the timestamp of the frame it reconstructs.
Backend_encode_slice(ready, request) ==
    [recon |-> [recon |-> request.input_meta.timestamp, ready |-> ready],
     bitstream |-> [ready |-> ready]]

StatelessEncoder_request(e, request) ==
    LET promises == Backend_encode_slice(backend_ready, request)
        slice_promise == [meta |-> request.input_meta, ready |-> promises.bitstream.ready]
        ref_promise == [recon |-> promises.recon.recon, dpb_meta |-> request.dpb_meta,
                        ready |-> promises.recon.ready]
    IN  [e EXCEPT !.output_queue = OutputQueue_add_promise(@, slice_promise),
                  !.recon_queue = OutputQueue_add_promise(@, ref_promise),
                  !.submitted = Append(@, request)]

\* Mutant: execute counts a verdict off once, whatever the number of its requests.
RECURSIVE StatelessEncoder_execute_counts_verdict(_, _)
StatelessEncoder_execute_counts_verdict(e, requests) ==
    IF requests = <<>> \/ ~Running(e)
    THEN e
    ELSE LET e1 == StatelessEncoder_request(e, Head(requests))
         IN  IF Tail(requests) # <<>>
             THEN StatelessEncoder_execute_counts_verdict(e1, Tail(requests))
             ELSE IF e1.predictor_frame_count = 0
             THEN [e1 EXCEPT !.status = "panic"]
             ELSE [e1 EXCEPT !.predictor_frame_count = @ - 1]

\* execute: the encoder after the verdict; NoOperation (no requests) returns false.
\* predictor_frame_count is a usize: a decrement at 0 aborts (overflow check).
RECURSIVE StatelessEncoder_execute(_, _)
StatelessEncoder_execute(e, requests) ==
    IF requests = <<>> \/ ~Running(e)
    THEN e
    ELSE LET e1 == StatelessEncoder_request(e, Head(requests))
         IN  IF e1.predictor_frame_count = 0
             THEN [e1 EXCEPT !.status = "panic"]
             ELSE StatelessEncoder_execute(
                      [e1 EXCEPT !.predictor_frame_count = @ - 1], Tail(requests))

\* First loop of poll_pending: move coded results to coded_queue.
RECURSIVE StatelessEncoder_poll_output(_, _)
StatelessEncoder_poll_output(e, mode) ==
    LET r == OutputQueue_poll(e.output_queue, mode)
    IN  IF IsNone(r.out)
        THEN e
        ELSE StatelessEncoder_poll_output(
                 [e EXCEPT !.output_queue = r.q,
                           !.coded_queue = Append(@, SlicePromise_sync(Unwrap(r.out))),
                           !.sync_log = @ \cup {[queue |-> "output",
                                                 ready |-> Unwrap(r.out).ready]}],
                 mode)

\* Second loop of poll_pending: hand reconstructions to the predictor.
RECURSIVE StatelessEncoder_poll_recon(_, _, _)
StatelessEncoder_poll_recon(cfg, e, mode) ==
    LET r == OutputQueue_poll(e.recon_queue, mode)
    IN  IF IsNone(r.out)
        THEN e
        ELSE LET recon == ReferencePromise_sync(Unwrap(r.out))
                 v == Predictor_reconstructed(cfg, e.predictor, recon)
                 e1 == [e EXCEPT !.recon_queue = r.q,
                                 !.recon_log = Append(@, recon),
                                 !.sync_log = @ \cup {[queue |-> "recon",
                                                       ready |-> Unwrap(r.out).ready]},
                                 !.predictor = v.p,
                                 !.status = v.status]
             IN  IF v.status # "ok" \/ v.requests = <<>>
                 THEN e1
                 ELSE LET e2 == StatelessEncoder_execute(e1, v.requests)
                      IN  IF Running(e2)
                          THEN StatelessEncoder_poll_recon(cfg, e2, mode)
                          ELSE e2

\* Mutant: poll_pending leaves the reconstruction queue alone.
StatelessEncoder_poll_pending_output_only(cfg, e, mode) ==
    StatelessEncoder_poll_output(e, mode)

StatelessEncoder_poll_pending(cfg, e, mode) ==
    StatelessEncoder_poll_recon(cfg, StatelessEncoder_poll_output(e, mode), mode)

\* Mutant: encode polls the pending promises after submitting.
StatelessEncoder_encode_polls(cfg, e, metadata, imported) ==
    LET e1 == [e EXCEPT !.predictor_frame_count = @ + 1]
        v == Predictor_new_frame(cfg, e1.predictor, metadata)
        e2 == [e1 EXCEPT !.predictor = v.p, !.status = v.status]
    IN  IF Backend_import_picture(imported) # "Ok"
        THEN [e EXCEPT !.err = Backend_import_picture(imported)]
        ELSE IF v.status # "ok"
        THEN e2
        ELSE StatelessEncoder_poll_pending(
                 cfg, StatelessEncoder_execute(e2, v.requests), "NonBlocking")

\* Mutant: encode counts the frame before it imports the picture.
StatelessEncoder_encode_counts_first(cfg, e, metadata, imported) ==
    LET e1 == [e EXCEPT !.predictor_frame_count = @ + 1]
        v == Predictor_new_frame(cfg, e1.predictor, metadata)
        e2 == [e1 EXCEPT !.predictor = v.p, !.status = v.status]
    IN  IF Backend_import_picture(imported) # "Ok"
        THEN [e1 EXCEPT !.err = Backend_import_picture(imported)]
        ELSE IF v.status # "ok" THEN e2 ELSE StatelessEncoder_execute(e2, v.requests)

\* encode after a successful import_picture.
\* encode: `imported` tells whether import_picture accepts the frame; its error is
\* returned by the ? operator before anything of the encoder is touched.
StatelessEncoder_encode(cfg, e, metadata, imported) ==
    LET e1 == [e EXCEPT !.predictor_frame_count = @ + 1]
        v == Predictor_new_frame(cfg, e1.predictor, metadata)
        e2 == [e1 EXCEPT !.predictor = v.p, !.status = v.status]
    IN  IF Backend_import_picture(imported) # "Ok"
        THEN [e EXCEPT !.err = Backend_import_picture(imported)]
        ELSE IF v.status # "ok" THEN e2 ELSE StatelessEncoder_execute(e2, v.requests)

\* The requests of Predictor::drain are counted off first, then submitted.
RECURSIVE StatelessEncoder_submit(_, _)
StatelessEncoder_submit(e, requests) ==
    IF requests = <<>>
    THEN e
    ELSE StatelessEncoder_submit(StatelessEncoder_request(e, Head(requests)),
                                 Tail(requests))

\* Mutant: the first loop of drain runs only while predictor_frame_count > 0.
RECURSIVE StatelessEncoder_drain_predictor_count_only(_, _)
StatelessEncoder_drain_predictor_count_only(cfg, e) ==
    IF ~Running(e)
    THEN e
    ELSE IF e.predictor_frame_count > 0
    THEN LET forced ==
                 IF OutputQueue_is_empty(e.output_queue)
                    /\ OutputQueue_is_empty(e.recon_queue)
                 THEN LET d == Predictor_drain(cfg, e.predictor)
                      IN  IF d.err # "none" \/ d.status # "ok"
                          THEN [e EXCEPT !.predictor = d.p, !.err = d.err,
                                         !.status = d.status]
                          ELSE StatelessEncoder_submit(
                                   [e EXCEPT !.predictor = d.p,
                                             !.predictor_frame_count = @ - Len(d.requests),
                                             !.drain_log = @ \o d.requests],
                                   d.requests)
                 ELSE e
         IN  IF Running(forced)
             THEN StatelessEncoder_drain_predictor_count_only(
                      cfg, StatelessEncoder_poll_pending(cfg, forced, "Blocking"))
             ELSE forced
    ELSE e

\* One pass through the body of the first loop of drain: force the predictor when
\* both queues are empty, then poll_pending(Blocking).
StatelessEncoder_drain_iteration(cfg, e) ==
    LET forced ==
            IF OutputQueue_is_empty(e.output_queue)
               /\ OutputQueue_is_empty(e.recon_queue)
            THEN LET d == Predictor_drain(cfg, e.predictor)
                 IN  IF d.err # "none" \/ d.status # "ok"
                     THEN [e EXCEPT !.predictor = d.p, !.err = d.err,
                                    !.status = d.status]
                     ELSE IF e.predictor_frame_count < Len(d.requests)
                     THEN [e EXCEPT !.predictor = d.p, !.status = "panic"]
                     ELSE StatelessEncoder_submit(
                              [e EXCEPT !.predictor = d.p,
                                        !.predictor_frame_count = @ - Len(d.requests),
                                        !.drain_log = @ \o d.requests],
                              d.requests)
            ELSE e
    IN  IF Running(forced)
        THEN StatelessEncoder_poll_pending(cfg, forced, "Blocking")
        ELSE forced

\* The condition of the first loop of drain.
StatelessEncoder_drain_holds(e) ==
    e.predictor_frame_count > 0 \/ ~OutputQueue_is_empty(e.recon_queue)

RECURSIVE StatelessEncoder_drain_predictor(_, _)
StatelessEncoder_drain_predictor(cfg, e) ==
    IF ~Running(e)
    THEN e
    ELSE IF StatelessEncoder_drain_holds(e)
    THEN StatelessEncoder_drain_predictor(cfg, StatelessEncoder_drain_iteration(cfg, e))
    ELSE e

RECURSIVE StatelessEncoder_drain_output(_, _)
StatelessEncoder_drain_output(cfg, e) ==
    IF Running(e) /\ ~OutputQueue_is_empty(e.output_queue)
    THEN StatelessEncoder_drain_output(
             cfg, StatelessEncoder_poll_pending(cfg, e, "Blocking"))
    ELSE e

\* Mutant: drain returns after its first loop.
StatelessEncoder_drain_first_loop_only(cfg, e) == StatelessEncoder_drain_predictor(cfg, e)

\* Mutant: drain flushes the predictor, which starts a new sequence afterwards.
StatelessEncoder_drain_flushes(cfg, e) ==
    LET d == StatelessEncoder_drain_output(cfg, StatelessEncoder_drain_predictor(cfg, e))
    IN  IF Running(d) THEN [d EXCEPT !.predictor = Predictor_new(cfg)] ELSE d

StatelessEncoder_drain(cfg, e) ==
    StatelessEncoder_drain_output(cfg, StatelessEncoder_drain_predictor(cfg, e))

\* poll: poll_pending without blocking, then coded_queue.pop_front().
StatelessEncoder_poll(cfg, e) ==
    StatelessEncoder_poll_pending(cfg, e, "NonBlocking")

\* ------------------------------------------------------------------ actions
Init ==
    /\ config \in PredictionStructure
    /\ backend_ready \in BOOLEAN
    /\ \E mode \in BlockingModes :
          /\ output_queue = OutputQueue_new(mode)
          /\ recon_queue = OutputQueue_new(mode)
    /\ predictor = Predictor_new(config)
    /\ coded_queue = <<>>
    /\ predictor_frame_count = 0
    /\ status = "ok"
    /\ inputs = <<>>
    /\ submitted = <<>>
    /\ recon_log = <<>>
    /\ drain_log = <<>>
    /\ polled = <<>>
    /\ sync_log = {}
    /\ last_op = "new"
    /\ last_result = "Ok"

\* With the largest limit and tail >= 1: a LowDelay encoder WideCounter frames into a
\* sequence, all of them encoded, polled and reconstructed: the DPB holds the last
\* `tail` pictures. The histories start here; the pictures from before are numbered
\* -tail .. -1. With tail = 0 or limit = 0: a new encoder.
InitWide ==
    /\ config \in WideStructure
    /\ backend_ready \in BOOLEAN
    /\ \E mode \in BlockingModes :
          /\ output_queue = OutputQueue_new(mode)
          /\ recon_queue = OutputQueue_new(mode)
    /\ predictor =
          IF config.tail = 0 \/ config.limit = 0
          THEN Predictor_new(config)
          ELSE
          [Predictor_new(config) EXCEPT
              !.counter = WideCounter,
              !.sps = Some(LowDelay_sps(config)),
              !.dpb = [i \in 1..config.tail |->
                         [recon_pic |-> i - 1 - config.tail,
                          meta |-> [poc |-> 2 * (WideCounter - config.tail + i - 1),
                                    frame_num |-> WideCounter - config.tail + i - 1,
                                    is_reference |-> "ShortTerm"]]]]
    /\ coded_queue = <<>>
    /\ predictor_frame_count = 0
    /\ status = "ok"
    /\ inputs = <<>>
    /\ submitted = <<>>
    /\ recon_log = <<>>
    /\ drain_log = <<>>
    /\ polled = <<>>
    /\ sync_log = {}
    /\ last_op = "new"
    /\ last_result = "Ok"

\* The part of the state an operation rewrites from the encoder record.
Store(e) ==
    /\ output_queue' = e.output_queue
    /\ recon_queue' = e.recon_queue
    /\ predictor' = e.predictor
    /\ coded_queue' = e.coded_queue
    /\ predictor_frame_count' = e.predictor_frame_count
    /\ status' = e.status
    /\ submitted' = e.submitted
    /\ recon_log' = e.recon_log
    /\ drain_log' = e.drain_log
    /\ sync_log' = e.sync_log

Result(e) == IF e.status # "ok" THEN "Panic" ELSE IF e.err # "none" THEN e.err ELSE "Ok"

\* Number of frames submitted with force_keyframe so far.
Forced(metas) == Cardinality({i \in 1..Len(metas) : metas[i].force_keyframe})

\* The client calls encode with the next frame (timestamps strictly increasing); it
\* asks for a keyframe at most once in a run. The backend imports the picture or
\* refuses it; a refused frame is not part of `inputs`.
Encode ==
    /\ status = "ok"
    /\ Len(inputs) < MaxFrames
    /\ \E force_keyframe \in IF Forced(inputs) = 0 THEN BOOLEAN ELSE {FALSE} :
       \E imported \in IF force_keyframe THEN {TRUE} ELSE BOOLEAN :
          LET metadata == [timestamp |-> Len(inputs), force_keyframe |-> force_keyframe]
              e == StatelessEncoder_encode(config, Encoder, metadata, imported)
          IN  /\ Store(e)
              /\ inputs' = IF imported THEN Append(inputs, metadata) ELSE inputs
              /\ last_result' = Result(e)
    /\ last_op' = "encode"
    /\ UNCHANGED <<config, backend_ready, polled>>

\* The client calls poll.
Poll ==
    /\ status = "ok"
    /\ LET e == StatelessEncoder_poll(config, Encoder)
       IN  IF Running(e) /\ e.coded_queue # <<>>
           THEN /\ Store([e EXCEPT !.coded_queue = PopFront(@)])
                /\ polled' = Append(polled, Head(e.coded_queue))
                /\ last_result' = "Some"
           ELSE /\ Store(e)
                /\ polled' = polled
                /\ last_result' = IF Running(e) THEN "None" ELSE Result(e)
    /\ last_op' = "poll"
    /\ UNCHANGED <<config, backend_ready, inputs>>

\* The client calls drain.
Drain ==
    /\ status = "ok"
    /\ LET e == StatelessEncoder_drain(config, Encoder)
       IN  /\ Store(e)
           /\ last_result' = Result(e)
    /\ last_op' = "drain"
    /\ UNCHANGED <<config, backend_ready, inputs, polled>>

\* The backend finishes a coded slice / a reconstruction, in any order.
SetReady(q, i) == [q EXCEPT !.promises[i].ready = TRUE]

ResolveCoded ==
    /\ status = "ok"
    /\ \E i \in 1..Len(output_queue.promises) :
          /\ ~output_queue.promises[i].ready
          /\ output_queue' = SetReady(output_queue, i)
    /\ sync_log' = {}
    /\ last_op' = "backend"
    /\ last_result' = "Ok"
    /\ UNCHANGED <<config, backend_ready, recon_queue, predictor, coded_queue,
                   predictor_frame_count, status, inputs, submitted, recon_log,
                   drain_log, polled>>

ResolveRecon ==
    /\ status = "ok"
    /\ \E i \in 1..Len(recon_queue.promises) :
          /\ ~recon_queue.promises[i].ready
          /\ recon_queue' = SetReady(recon_queue, i)
    /\ sync_log' = {}
    /\ last_op' = "backend"
    /\ last_result' = "Ok"
    /\ UNCHANGED <<config, backend_ready, output_queue, predictor, coded_queue,
                   predictor_frame_count, status, inputs, submitted, recon_log,
                   drain_log, polled>>

Next == Encode \/ Poll \/ Drain \/ ResolveCoded \/ ResolveRecon

Spec == Init /\ [][Next]_vars

SpecWide == InitWide /\ [][Next]_vars

\* simple_encode_loop as the client: for every frame of the producer it calls encode
\* and then poll until poll returns None; when the producer is exhausted (MaxFrames
\* frames) it calls drain and again poll until None. An error returned by a call ends
\* the loop. The loop may be entered again with an exhausted producer.
LoopEncode ==
    /\ last_op = "new" \/ (last_op = "poll" /\ last_result = "None")
    /\ Encode

LoopPoll ==
    /\ \/ last_op \in {"encode", "drain"} /\ last_result = "Ok"
       \/ last_op = "poll" /\ last_result = "Some"
    /\ Poll

LoopDrain ==
    /\ \/ last_op = "new"
       \/ last_op = "poll" /\ last_result = "None"
    /\ Len(inputs) = MaxFrames
    /\ Drain

NextLoop == LoopEncode \/ LoopPoll \/ LoopDrain \/ ResolveCoded \/ ResolveRecon

SpecLoop == Init /\ [][NextLoop]_vars

\* drain one loop iteration at a time. last_op is the position of the client: "drain1"
\* inside the first loop of drain, "drain2" inside the second, "drain" once it has
\* returned. A blocking sync inside an iteration waits until the backend has resolved
\* the promise; between the calls of the client the backend resolves promises as in
\* Spec. The client imports every frame and asks for no keyframe.
Draining == last_op \in {"drain1", "drain2"}

DrainEncode ==
    /\ ~Draining
    /\ Encode
    /\ Len(inputs') = Len(inputs) + 1
    /\ ~inputs'[Len(inputs')].force_keyframe

DrainPoll == ~Draining /\ Poll

DrainCall ==
    /\ status = "ok"
    /\ ~Draining
    /\ last_op' = "drain1"
    /\ last_result' = "Ok"
    /\ sync_log' = {}
    /\ UNCHANGED <<config, backend_ready, output_queue, recon_queue, predictor,
                   coded_queue, predictor_frame_count, status, inputs, submitted,
                   recon_log, drain_log, polled>>

\* An iteration of the first loop; an error or a panic inside it ends drain.
DrainPredictorIteration ==
    /\ last_op = "drain1"
    /\ StatelessEncoder_drain_holds(Encoder)
    /\ LET e == StatelessEncoder_drain_iteration(config, Encoder)
       IN  /\ Store(e)
           /\ last_op' = IF Running(e) THEN "drain1" ELSE "drain"
           /\ last_result' = Result(e)
    /\ UNCHANGED <<config, backend_ready, inputs, polled>>

\* The condition of the first loop is false: on to the second loop.
DrainPredictorDone ==
    /\ last_op = "drain1"
    /\ ~StatelessEncoder_drain_holds(Encoder)
    /\ last_op' = "drain2"
    /\ UNCHANGED <<config, backend_ready, output_queue, recon_queue, predictor,
                   coded_queue, predictor_frame_count, status, inputs, submitted,
                   recon_log, drain_log, polled, sync_log, last_result>>

\* An iteration of the second loop.
DrainOutputIteration ==
    /\ last_op = "drain2"
    /\ ~OutputQueue_is_empty(output_queue)
    /\ LET e == StatelessEncoder_poll_pending(config, Encoder, "Blocking")
       IN  /\ Store(e)
           /\ last_op' = IF Running(e) THEN "drain2" ELSE "drain"
           /\ last_result' = Result(e)
    /\ UNCHANGED <<config, backend_ready, inputs, polled>>

\* The output queue is empty: drain returns Ok(()).
DrainReturn ==
    /\ last_op = "drain2"
    /\ OutputQueue_is_empty(output_queue)
    /\ last_op' = "drain"
    /\ last_result' = "Ok"
    /\ UNCHANGED <<config, backend_ready, output_queue, recon_queue, predictor,
                   coded_queue, predictor_frame_count, status, inputs, submitted,
                   recon_log, drain_log, polled, sync_log>>

DrainStep ==
    DrainPredictorIteration \/ DrainPredictorDone \/ DrainOutputIteration \/ DrainReturn

DrainResolveCoded == ~Draining /\ ResolveCoded

DrainResolveRecon == ~Draining /\ ResolveRecon

NextDrain ==
    \/ DrainEncode
    \/ DrainPoll
    \/ DrainCall
    \/ DrainPredictorIteration
    \/ DrainPredictorDone
    \/ DrainOutputIteration
    \/ DrainReturn
    \/ DrainResolveCoded
    \/ DrainResolveRecon

\* drain runs in the thread of the client: once called it keeps taking its steps.
SpecDrain == Init /\ [][NextDrain]_vars /\ WF_vars(DrainStep)

\* ------------------------------------------------------- claim vocabulary
Timestamps(metas) == [i \in 1..Len(metas) |-> metas[i].timestamp]
IsPrefix(s, t) == Len(s) <= Len(t) /\ SubSeq(t, 1, Len(s)) = s
Range(s) == {s[i] : i \in 1..Len(s)}
PromiseMetas(q) == [i \in 1..Len(q.promises) |-> q.promises[i].meta]
PromiseRecons(q) == [i \in 1..Len(q.promises) |-> ReferencePromise_sync(q.promises[i])]
RequestMetas(requests) == [i \in 1..Len(requests) |-> requests[i].input_meta]
RequestRecons(requests) ==
    [i \in 1..Len(requests) |->
        [recon_pic |-> requests[i].input_meta.timestamp, meta |-> requests[i].dpb_meta]]
DrainReturnedOk == last_op = "drain" /\ last_result = "Ok"
\* The buffers the client has got and those poll hands out without further sync.
Delivered == polled \o coded_queue

\* C1 (as stated): once drain has returned, the buffers poll returns are the input
\* frames in input order, for LowDelay and for GroupOfPictures alike.
C1_OutputOrderAnyStructure ==
    DrainReturnedOk => Timestamps(Delivered) = Timestamps(inputs)

\* C1 (amended): with LowDelay the buffers poll returns always follow the input order
\* and after drain they are all the input frames; with GroupOfPictures they follow the
\* order in which the requests were submitted, and after drain they are a permutation
\* of the input frames.
C1_OutputOrder ==
    /\ Timestamps(Delivered \o PromiseMetas(output_queue))
           = Timestamps(RequestMetas(submitted))
    /\ config.pred = "LowDelay" =>
           /\ IsPrefix(Timestamps(polled), Timestamps(inputs))
           /\ DrainReturnedOk => Timestamps(Delivered) = Timestamps(inputs)
           /\ (last_op = "poll" /\ last_result = "None" /\ predictor_frame_count = 0
                 /\ OutputQueue_is_empty(output_queue))
                 => Timestamps(polled) = Timestamps(inputs)
    /\ config.pred = "GroupOfPictures" =>
           (DrainReturnedOk =>
               /\ Len(Delivered) = Len(inputs)
               /\ Range(Delivered) = Range(inputs))

C1_Witness ==
    /\ config.pred = "LowDelay"
    /\ ~backend_ready
    /\ DrainReturnedOk
    /\ Len(inputs) = MaxFrames
    /\ polled # <<>>
    /\ coded_queue # <<>>

\* C2: after a successful drain the buffers handed out (polled, or waiting in
\* coded_queue) are as many as the encode calls, one per frame.
C2_FrameCountConservation ==
    DrainReturnedOk =>
        /\ Len(polled) + Len(coded_queue) = Len(inputs)
        /\ \A i, j \in 1..Len(Delivered) :
               Delivered[i].timestamp = Delivered[j].timestamp => i = j
        /\ \A m \in Range(inputs) : \E i \in 1..Len(Delivered) : Delivered[i] = m

C2_Witness ==
    /\ DrainReturnedOk
    /\ config.pred = "GroupOfPictures"
    /\ Len(inputs) = MaxFrames
    /\ Len(polled) = 1
    /\ Len(coded_queue) = MaxFrames - 1

\* C3: when drain returns Ok both queues are empty, the predictor holds no frame
\* (predictor_frame_count is 0) and every frame is in coded_queue unless polled before.
C3_DrainPostcondition ==
    DrainReturnedOk =>
        /\ OutputQueue_is_empty(output_queue)
        /\ OutputQueue_is_empty(recon_queue)
        /\ predictor_frame_count = 0
        /\ Predictor_held(config, predictor) = 0
        /\ Range(inputs) \ Range(polled) = Range(coded_queue)

C3_Witness ==
    /\ DrainReturnedOk
    /\ ~backend_ready
    /\ Len(inputs) = MaxFrames
    /\ polled = <<>>
    /\ Len(recon_log) = MaxFrames

\* C4: results leave both queues in the order the promises were added, whichever
\* promise the backend resolves first: the coded buffers are the submitted requests
\* in submission order, and so are the reconstructions the predictor is given.
C4_FifoDelivery ==
    /\ Delivered \o PromiseMetas(output_queue) = RequestMetas(submitted)
    /\ recon_log \o PromiseRecons(recon_queue) = RequestRecons(submitted)

\* A later promise is ready, the head is not, and poll returned nothing.
C4_Witness ==
    /\ last_op = "poll"
    /\ last_result = "None"
    /\ Len(output_queue.promises) >= 2
    /\ ~output_queue.promises[1].ready
    /\ output_queue.promises[2].ready
    /\ Len(recon_queue.promises) >= 2
    /\ ~recon_queue.promises[1].ready
    /\ recon_queue.promises[2].ready

\* C5: encode never calls sync on a promise, whatever the BlockingMode.
C5_EncodeNeverSyncs ==
    last_op = "encode" => sync_log = {}

C5_Witness ==
    /\ last_op = "encode"
    /\ last_result = "Ok"
    /\ output_queue.blocking = "Blocking"
    /\ Len(output_queue.promises) >= 2
    /\ \E i \in 1..Len(output_queue.promises) : output_queue.promises[i].ready

\* C6 (as stated): poll never calls sync on a promise that is not ready, whichever
\* BlockingMode the encoder was constructed with.
C6_PollNeverSyncsUnready ==
    last_op = "poll" => \A s \in sync_log : s.ready

\* C6 (amended): an encoder constructed NonBlocking never calls sync in poll on a
\* promise that is not ready: a head that is not ready stays queued. (An encoder
\* constructed Blocking syncs the heads in poll ready or not.)
C6_PollNonBlocking ==
    (last_op = "poll" /\ output_queue.blocking = "NonBlocking" /\ recon_queue.blocking = "NonBlocking")
        => \A s \in sync_log : s.ready

C6_Witness ==
    /\ last_op = "poll"
    /\ output_queue.blocking = "NonBlocking"
    /\ ~backend_ready
    /\ sync_log # {}
    /\ output_queue.promises # <<>>
    /\ ~output_queue.promises[1].ready

\* The request submitted for the input frame with timestamp t, if any.
Emitted(t) == \E j \in 1..Len(submitted) : submitted[j].input_meta.timestamp = t
RequestOf(t) == CHOOSE r \in Range(submitted) : r.input_meta.timestamp = t
\* Position in `submitted` of the latest IDR request before position j (0 if none).
LastIdr(j) ==
    LET idrs == {k \in 1..(j - 1) : submitted[k].is_idr}
    IN  IF idrs = {} THEN 0 ELSE CHOOSE k \in idrs : \A m \in idrs : m <= k

\* C7 (as stated): with LowDelay the frame at input index i is an IDR request if and
\* only if i is a multiple of limit or the frame has force_keyframe set.
C7_IdrAtMultiplesOfLimit ==
    config.pred = "LowDelay" =>
        \A r \in Range(submitted) :
            r.is_idr <=> (r.input_meta.timestamp % config.limit = 0
                             \/ r.input_meta.force_keyframe)

\* C7 (amended): with LowDelay (limit >= 1) requests are submitted in input order, and
\* a frame is an IDR request if and only if it is the first frame, has force_keyframe
\* set, or is the limit-th frame after the most recent IDR: the period restarts at
\* every IDR, forced ones included.
C7_IdrPlacement ==
    config.pred = "LowDelay" =>
        \A j \in 1..Len(submitted) :
            /\ submitted[j].input_meta = inputs[j]
            /\ submitted[j].is_idr <=>
                  \/ j = 1
                  \/ submitted[j].input_meta.force_keyframe
                  \/ j - LastIdr(j) = config.limit

\* A forced IDR at index 1 moves the period: index 2 is P, index 3 is IDR (limit 2).
C7_Witness ==
    /\ config.pred = "LowDelay"
    /\ config.limit = MaxLimit
    /\ Len(submitted) = MaxFrames
    /\ submitted[2].input_meta.force_keyframe
    /\ ~submitted[3].is_idr
    /\ \E j \in 3..MaxFrames : submitted[j].is_idr

\* C8: with GroupOfPictures every frame submitted with force_keyframe set is emitted
\* as an IDR request.
C8_ForcedKeyframeIsIdr ==
    config.pred = "GroupOfPictures" =>
        \A r \in Range(submitted) : r.input_meta.force_keyframe => r.is_idr

\* C9: with GroupOfPictures, among any limit consecutive input frames that have all
\* been emitted there is an IDR request.
C9_PeriodicReset ==
    config.pred = "GroupOfPictures" =>
        \A a \in 0..(Len(inputs) - config.limit) :
            (\A t \in a..(a + config.limit - 1) : Emitted(t))
                => \E t \in a..(a + config.limit - 1) : RequestOf(t).is_idr

\* C10: every request emitted by either predictor has ref_list_0 empty if and only if
\* it is an IDR request, and an IDR request has ref_list_1 empty too.
C10_RefListsAndIdr ==
    \A r \in Range(submitted) :
        /\ (r.ref_list_0 = <<>>) <=> r.is_idr
        /\ r.is_idr => r.ref_list_1 = <<>>
        /\ r.is_idr <=> r.slice_type = "I"

\* An IDR, a P forced by drain and a B request have all been emitted.
C10_Witness ==
    /\ config.pred = "GroupOfPictures"
    /\ DrainReturnedOk
    /\ \E r \in Range(submitted) : r.slice_type = "B" /\ Len(r.ref_list_1) = 1
    /\ \E r \in Range(submitted) : r.slice_type = "P" /\ Len(r.ref_list_0) = 1
    /\ submitted[1].is_idr

\* C11: with LowDelay the DPB never holds more ShortTerm entries than the
\* max_num_ref_frames = tail + 1 that the active SPS declares.
C11_DpbBound ==
    (config.pred = "LowDelay" /\ IsSome(predictor.sps)) =>
        Cardinality({i \in 1..Len(predictor.dpb) :
                        predictor.dpb[i].meta.is_reference = "ShortTerm"})
            <= Unwrap(predictor.sps).max_num_ref_frames

\* C12: the DpbEntryMeta values attached to the promises that are in the reconstruction
\* queue are pairwise distinct.
C12_InFlightMetasDistinct ==
    \A i, j \in 1..Len(recon_queue.promises) :
        i # j => recon_queue.promises[i].dpb_meta # recon_queue.promises[j].dpb_meta

\* Position in `submitted` of the latest I or P request before position j (0 if none).
PrevRef(j) ==
    LET refs == {k \in 1..(j - 1) : submitted[k].slice_type # "B"}
    IN  IF refs = {} THEN 0 ELSE CHOOSE k \in refs : \A m \in refs : m <= k

\* C13 (as stated): in submission order frame_num is 0 at an IDR request and one more
\* than at the previous I or P request at every P request, and a B request carries the
\* frame_num of its P request (the picture in its ref_list_1).
C13_FrameNumSharedWithP ==
    \A j \in 1..Len(submitted) :
        LET r == submitted[j]
        IN  /\ r.is_idr => r.dpb_meta.frame_num = 0
            /\ r.slice_type = "P" =>
                  /\ PrevRef(j) > 0
                  /\ r.dpb_meta.frame_num = submitted[PrevRef(j)].dpb_meta.frame_num + 1
            /\ r.slice_type = "B" =>
                  r.dpb_meta.frame_num = r.ref_list_1[1].meta.frame_num

\* C13 (amended): frame_num is 0 at an IDR request and one more than at the previous
\* I or P request at every P request; a B request carries the frame_num of its P
\* request plus 1, the value the next P request takes, and does not advance it.
C13_FrameNum ==
    \A j \in 1..Len(submitted) :
        LET r == submitted[j]
        IN  /\ r.is_idr => r.dpb_meta.frame_num = 0
            /\ r.slice_type = "P" =>
                  /\ PrevRef(j) > 0
                  /\ r.dpb_meta.frame_num = submitted[PrevRef(j)].dpb_meta.frame_num + 1
            /\ r.slice_type = "B" =>
                  /\ PrevRef(j) > 0
                  /\ submitted[PrevRef(j)].slice_type = "P"
                  /\ r.ref_list_1[1].meta = submitted[PrevRef(j)].dpb_meta
                  /\ r.dpb_meta.frame_num = submitted[PrevRef(j)].dpb_meta.frame_num + 1

\* A B request has been emitted between two P requests.
C13_Witness ==
    /\ config.pred = "GroupOfPictures"
    /\ \E i, j, k \in 1..Len(submitted) :
          /\ i < j /\ j < k
          /\ submitted[i].slice_type = "P"
          /\ submitted[j].slice_type = "B"
          /\ submitted[k].slice_type = "P"

\* C14: every LowDelay request has frame_num = k and poc = 2 * k, where k is the
\* position of the frame counted from the most recent IDR request: 0 at an IDR
\* request and one more than at the request before at any other.
C14_PocParity ==
    config.pred = "LowDelay" =>
        \A j \in 1..Len(submitted) :
            LET r == submitted[j]
            IN  /\ r.is_idr => r.dpb_meta.frame_num = 0
                /\ (~r.is_idr /\ j > 1) =>
                      r.dpb_meta.frame_num = submitted[j - 1].dpb_meta.frame_num + 1
                /\ r.dpb_meta.poc = 2 * r.dpb_meta.frame_num

\* C15: with GroupOfPictures the poc of every B request is strictly greater than the
\* poc of its ref_list_0 entry and strictly less than the poc of its ref_list_1 entry.
C15_BFramePocBetweenRefs ==
    config.pred = "GroupOfPictures" =>
        \A r \in Range(submitted) :
            r.slice_type = "B" =>
                /\ r.ref_list_0[1].meta.poc < r.dpb_meta.poc
                /\ r.dpb_meta.poc < r.ref_list_1[1].meta.poc

\* C16: within one sequence the poc follows the display order: of two emitted frames
\* with no IDR request from the earlier input on up to the later one, the one that was
\* submitted to encode first has the smaller poc.
C16_PocFollowsDisplayOrder ==
    \A a, b \in 0..(Len(inputs) - 1) :
        (/\ a < b
         /\ \A t \in a..b : Emitted(t)
         /\ \A t \in (a + 1)..b : ~RequestOf(t).is_idr)
            => RequestOf(a).dpb_meta.poc < RequestOf(b).dpb_meta.poc

\* Positions in `submitted` of the P requests whose reconstruction has not been
\* delivered to the predictor yet.
UndeliveredP ==
    {j \in 1..Len(submitted) :
        /\ submitted[j].slice_type = "P"
        /\ RequestRecons(submitted)[j] \notin Range(recon_log)}

\* C17: with GroupOfPictures at most one P request is outstanding: l1_ref_pending is
\* set exactly while the reconstruction of a P request has not been delivered, and of
\* any two P requests the reconstruction of the first was delivered before the second
\* was emitted.
C17_OneOutstandingL1 ==
    config.pred = "GroupOfPictures" =>
        /\ Cardinality(UndeliveredP) <= 1
        /\ IsSome(predictor.l1_ref_pending) <=> UndeliveredP # {}
        /\ \A j \in UndeliveredP :
              /\ predictor.l1_ref_pending = Some(submitted[j].dpb_meta)
              /\ \A k \in (j + 1)..Len(submitted) : submitted[k].slice_type # "P"

\* A second P request has been emitted after the reconstruction of the first was
\* delivered, and waits for its own while a B frame is held back.
C17_Witness ==
    /\ config.pred = "GroupOfPictures"
    /\ UndeliveredP # {}
    /\ \E j \in 1..Len(submitted) :
          submitted[j].slice_type = "P" /\ j \notin UndeliveredP
    /\ predictor.future_b_frames # <<>>

\* C18: with LowDelay no call fails with InvalidInternalState, the predictor never
\* holds a frame while the output queue and the reconstruction queue are both empty,
\* and a drain before any encode returns Ok and yields no output.
C18_LowDelayDrainNeverFails ==
    config.pred = "LowDelay" =>
        /\ last_result # "InvalidInternalState"
        /\ ~(/\ Predictor_held(config, predictor) > 0
             /\ OutputQueue_is_empty(output_queue)
             /\ OutputQueue_is_empty(recon_queue))
        /\ (last_op = "drain" /\ inputs = <<>>) =>
              (last_result = "Ok" /\ Delivered = <<>> /\ submitted = <<>>)

\* drain has returned Ok after it had to wait for a reconstruction to release a frame
\* that the predictor held.
C18_Witness ==
    /\ config.pred = "LowDelay"
    /\ DrainReturnedOk
    /\ Len(submitted) > 1
    /\ \E s \in sync_log : s.queue = "recon" /\ ~s.ready
    /\ Len(Delivered) = Len(inputs)

\* C19: an encode call whose import_picture fails returns that error and leaves the
\* encoder as it was: predictor_frame_count, the predictor with its pending frames,
\* both queues and coded_queue are unchanged and no request is submitted.
C19_ImportFailureLeavesState ==
    [][(last_op' = "encode" /\ last_result' = "BackendError") =>
          UNCHANGED <<predictor_frame_count, predictor, output_queue, recon_queue,
                      coded_queue, submitted, recon_log, status>>]_vars

\* encode has failed on import while the predictor held a frame and both queues had
\* promises.
C19_Witness ==
    /\ last_op = "encode"
    /\ last_result = "BackendError"
    /\ predictor_frame_count > 0
    /\ ~OutputQueue_is_empty(output_queue)
    /\ ~OutputQueue_is_empty(recon_queue)

\* The state a successful drain leaves and the polls after it keep: nothing is queued
\* and the predictor holds no frame.
Drained ==
    /\ status = "ok"
    /\ predictor_frame_count = 0
    /\ OutputQueue_is_empty(output_queue)
    /\ OutputQueue_is_empty(recon_queue)

\* C20: drain does not force a keyframe. With LowDelay the frame encoded next after a
\* drain is emitted at once, and as an IDR request only if it is the first frame, has
\* force_keyframe set or is the limit-th frame after the latest IDR, as without the
\* drain; with GroupOfPictures only the first request, emitted when no reference
\* exists yet, is an IDR request, whatever drains have happened.
C20_DrainForcesNoKeyframe ==
    /\ [](config.pred = "GroupOfPictures" =>
            \A j \in 2..Len(submitted) : ~submitted[j].is_idr)
    /\ [][(/\ config.pred = "LowDelay"
           /\ Drained
           /\ last_op' = "encode"
           /\ last_result' = "Ok") =>
             LET j == Len(submitted) + 1
             IN  /\ Len(submitted') = j
                 /\ submitted'[j].input_meta = inputs'[Len(inputs')]
                 /\ submitted'[j].is_idr =>
                       \/ j = 1
                       \/ submitted'[j].input_meta.force_keyframe
                       \/ j - LastIdr(j) = config.limit]_vars

\* Only drain fills coded_queue without poll returning a buffer: the earlier frames
\* were all drained, and the frame encoded next has been emitted as a P request.
C20_Witness ==
    /\ config.pred = "LowDelay"
    /\ last_op = "encode"
    /\ last_result = "Ok"
    /\ polled = <<>>
    /\ Len(inputs) >= 2
    /\ Len(coded_queue) = Len(inputs) - 1
    /\ Len(submitted) = Len(inputs)
    /\ submitted[Len(submitted)].input_meta = inputs[Len(inputs)]
    /\ ~submitted[Len(submitted)].is_idr

\* C21: a LowDelay P request at position c >= 1 from the latest IDR request has
\* ref_list_1 empty and ref_list_0 made of the reconstructions of the min(c, tail)
\* requests before it, the most recent first.
C21_LowDelayRefList ==
    config.pred = "LowDelay" =>
        \A j \in 1..Len(submitted) :
            (~submitted[j].is_idr /\ LastIdr(j) > 0) =>
                LET c == j - LastIdr(j)
                    n == Min(c, config.tail)
                IN  /\ submitted[j].ref_list_1 = <<>>
                    /\ submitted[j].ref_list_0 =
                          [i \in 1..n |-> RequestRecons(submitted)[j - i]]

\* The request GroupOfPictures submits at position j when drain forces nothing: the
\* IDR of frame 0, then chunk after chunk the P of frame k * (size + 1) followed by
\* the B requests of the `size` frames before it, in display order.
ChunkOrder(j) ==
    IF j = 1
    THEN [timestamp |-> 0, slice_type |-> "I"]
    ELSE LET k == ((j - 2) \div (config.size + 1)) + 1
             r == (j - 2) % (config.size + 1)
         IN  IF r = 0
             THEN [timestamp |-> k * (config.size + 1), slice_type |-> "P"]
             ELSE [timestamp |-> (k - 1) * (config.size + 1) + r, slice_type |-> "B"]

Anchors == {k \in 1..Len(submitted) : submitted[k].slice_type # "B"}
AnchorTime(k) == submitted[k].input_meta.timestamp

\* C23: with GroupOfPictures every B request is no reference, its ref_list_0 is the
\* reconstruction of the anchor that precedes it in display order and its ref_list_1
\* the reconstruction of the P request that follows it in display order, which was
\* submitted just before the B requests and whose delivery emitted them; once they
\* are emitted that P is l0_ref and, until the next P request, no L1 is pending.
C23_GopBReferences ==
    config.pred = "GroupOfPictures" =>
        \A j \in 1..Len(submitted) :
            submitted[j].slice_type = "B" =>
                LET t == submitted[j].input_meta.timestamp
                    before == {k \in Anchors : AnchorTime(k) < t}
                    after == {k \in Anchors : AnchorTime(k) > t}
                    a == CHOOSE k \in before :
                             \A m \in before : AnchorTime(m) <= AnchorTime(k)
                    n == CHOOSE k \in after :
                             \A m \in after : AnchorTime(k) <= AnchorTime(m)
                IN  /\ submitted[j].dpb_meta.is_reference = "No"
                    /\ before # {} /\ after # {}
                    /\ submitted[j].ref_list_0 = <<RequestRecons(submitted)[a]>>
                    /\ submitted[j].ref_list_1 = <<RequestRecons(submitted)[n]>>
                    /\ n = PrevRef(j)
                    /\ submitted[n].slice_type = "P"
                    /\ RequestRecons(submitted)[n] \in Range(recon_log)
                    /\ (\A k \in Anchors : k <= n) =>
                          /\ predictor.l0_ref = Some(RequestRecons(submitted)[n])
                          /\ predictor.l1_ref_pending = None

\* After a P request forced by drain, a later P request has been reconstructed and has
\* emitted a B request that lies between the two.
C23_Witness ==
    /\ config.pred = "GroupOfPictures"
    /\ drain_log # <<>>
    /\ submitted # <<>>
    /\ submitted[Len(submitted)].slice_type = "B"
    /\ submitted[Len(submitted)].ref_list_0[1].meta = drain_log[1].dpb_meta

\* OutputQueue::poll on queue q in mode `mode` returns None and leaves q as it was.
PollReturnsNoneUnchanged(q, mode) ==
    LET r == OutputQueue_poll(q, mode) IN IsNone(r.out) /\ r.q = q

\* C24: OutputQueue::poll leaves the queue unchanged when it returns None. On every
\* queue the encoder reaches, in either mode: a poll that returns None returns the
\* queue as it was; on an empty queue it returns None; on a queue constructed
\* NonBlocking and polled NonBlocking whose head is not ready it returns None. And a
\* poll of the encoder that called sync on nothing leaves both queues unchanged.
C24_PollNoneLeavesQueue ==
    /\ [](\A q \in {output_queue, recon_queue} : \A mode \in BlockingModes :
            /\ IsNone(OutputQueue_poll(q, mode).out) => PollReturnsNoneUnchanged(q, mode)
            /\ OutputQueue_is_empty(q) => PollReturnsNoneUnchanged(q, mode)
            /\ (/\ ~OutputQueue_is_empty(q)
                /\ q.blocking = "NonBlocking"
                /\ mode = "NonBlocking"
                /\ ~Head(q.promises).ready) => PollReturnsNoneUnchanged(q, mode))
    /\ [][(last_op' = "poll" /\ sync_log' = {}) =>
             UNCHANGED <<output_queue, recon_queue>>]_vars

\* poll has returned None without a sync while both queues hold a promise that is not
\* ready, behind which another one is queued.
C24_Witness ==
    /\ last_op = "poll"
    /\ last_result = "None"
    /\ sync_log = {}
    /\ Len(output_queue.promises) >= 2
    /\ ~output_queue.promises[1].ready
    /\ output_queue.promises[2].ready
    /\ ~OutputQueue_is_empty(recon_queue)
    /\ ~recon_queue.promises[1].ready

C26_LowDelayZeroLatency ==
    (config.pred = "LowDelay" /\ backend_ready /\ status = "ok") =>
        /\ Predictor_held(config, predictor) = 0
        /\ predictor_frame_count = 0
        /\ Len(submitted) = Len(inputs)
        /\ Len(inputs) - Len(polled) <= 1
        /\ IsPrefix(Timestamps(polled), Timestamps(inputs))
        /\ (last_op = "poll") =>
              (/\ Timestamps(polled) = Timestamps(inputs)
               /\ OutputQueue_is_empty(output_queue)
               /\ OutputQueue_is_empty(recon_queue)
               /\ coded_queue = <<>>)
        /\ (last_op = "encode" /\ last_result = "BackendError") =>
              Timestamps(polled) = Timestamps(inputs)

\* The loop has encoded and polled MaxFrames frames one after the other, a forced
\* keyframe and a P request among them.
C26_Witness ==
    /\ config.pred = "LowDelay"
    /\ backend_ready
    /\ last_op = "poll"
    /\ last_result = "None"
    /\ Len(polled) = MaxFrames
    /\ \E j \in 2..Len(submitted) : submitted[j].input_meta.force_keyframe
    /\ \E j \in 2..Len(submitted) : submitted[j].slice_type = "P"

\* C27: GroupOfPictures, once the reconstruction whose meta equals idr_ref_pending
\* has been delivered: l0_ref has been set (the entry itself until a P replaces it)
\* and idr_ref_pending is None.
C27_GopIdrHandOver ==
    (config.pred = "GroupOfPictures" /\ status = "ok" /\ recon_log # <<>>) =>
        /\ IsSome(predictor.l0_ref)
        /\ Len(recon_log) = 1 => predictor.l0_ref = Some(recon_log[1])
        /\ IsNone(predictor.idr_ref_pending)

\* C28: the assertion of LowDelay::next_request never fails: the predictor never
\* stops on a P request whose most recent DPB entry has a frame_num other than
\* counter - 1.
C28_LowDelayAssertionHolds ==
    ~(/\ config.pred = "LowDelay"
      /\ status = "panic"
      /\ predictor.dpb # <<>>
      /\ Back(predictor.dpb).meta.frame_num # predictor.counter - 1)

\* C29: with LowDelay every entry of the ref_list_0 of a P request is the
\* reconstruction of a request submitted at or after the most recent IDR request
\* before it.
C29_NoReferenceAcrossIdr ==
    config.pred = "LowDelay" =>
        \A j \in 1..Len(submitted) :
            submitted[j].slice_type = "P" =>
                \A i \in 1..Len(submitted[j].ref_list_0) :
                    \E k \in LastIdr(j)..(j - 1) :
                        /\ k >= 1
                        /\ submitted[j].ref_list_0[i] = RequestRecons(submitted)[k]

\* C30: whenever encode, poll or drain has returned, predictor_frame_count is the
\* number of frames the predictor holds (LowDelay: queue; GroupOfPictures: pending
\* and future_b_frames), and the count is never taken below 0: in every state the
\* frames counted and the requests submitted add up to the frames encode accepted.
C30_HeldFrameAccounting ==
    /\ status = "ok" => predictor_frame_count = Predictor_held(config, predictor)
    /\ predictor_frame_count >= 0
    /\ predictor_frame_count + Len(submitted) = Len(inputs)

\* Two frames are held by the predictor after a poll or a drain, with requests
\* already counted off.
C30_Witness ==
    /\ status = "ok"
    /\ last_op \in {"poll", "drain"}
    /\ submitted # <<>>
    /\ predictor_frame_count = 2
    /\ Predictor_held(config, predictor) = 2

\* C31: every request submitted, by either predictor, carries a frame_num below the
\* max_frame_num and a poc below the max_pic_order_cnt_lsb of its SPS.
C31_CountersWithinSps ==
    \A r \in Range(submitted) :
        /\ r.dpb_meta.frame_num < r.sps.max_frame_num
        /\ r.dpb_meta.poc < r.sps.max_pic_order_cnt_lsb

\* C32: with LowDelay, whatever tail and limit a u16 holds, no arithmetic step of the
\* predictor fails: no run is aborted by the remainder counter % limit, by the product
\* counter * 2 or by the difference tail - 1, and none of them wraps: every P request
\* has poc = 2 * frame_num, and with tail = 0 no P request is built, since building
\* one evaluates tail - 1.
C32_LowDelayArithmeticSafe ==
    config.pred = "LowDelay" =>
        /\ status # "arithmetic"
        /\ \A r \in Range(submitted) :
              r.slice_type = "P" => r.dpb_meta.poc = 2 * r.dpb_meta.frame_num
        /\ config.tail = 0 => \A r \in Range(submitted) : r.slice_type # "P"

\* The work drain has left: every held frame becomes a request, which puts a promise
\* into each queue, and every promise is removed once.
DrainMeasure ==
    3 * predictor_frame_count + Len(output_queue.promises) + Len(recon_queue.promises)

\* C33: drain terminates and returns. Every iteration of its loops removes a promise
\* from a queue or makes the predictor release a held frame, so that the work left
\* shrinks with every iteration and the loops end; and drain ends by returning, never
\* by a panic.
C33_DrainTerminates ==
    /\ [](last_op = "drain" => status = "ok")
    /\ [][(DrainPredictorIteration \/ DrainOutputIteration) =>
             /\ \/ Len(coded_queue') > Len(coded_queue)
                \/ Len(recon_log') > Len(recon_log)
                \/ predictor_frame_count' < predictor_frame_count
             /\ status' = "ok" => DrainMeasure' < DrainMeasure]_vars
====
